---- MODULE Spec2Model ----
(***************************************************************************)
(* Model of record_pressure_data.py: the acquisition thread (seat_thread,  *)
(* ReceiveMapSeat, ReceiveRowSeat, read_exact), the shared matrix          *)
(* Values_seat guarded by seat_lock, and the consumer update_seat.         *)
(*                                                                         *)
(* The grid is scaled down (ROWS_SEAT x COLS_SEAT) and the serial link     *)
(* delivers bytes from the alphabet Bytes; every read may also time out    *)
(* or fail with a serial error.  The sample decoder itself is checked on   *)
(* all 256 x 256 byte pairs under SpecDecode.                              *)
(***************************************************************************)
EXTENDS Integers, Sequences, FiniteSets, TLC

\* ---------------------------------------------------------------- sizes
ROWS_SEAT == 2
COLS_SEAT == 2
MaxAttempts == 9

MarkerM == 77
Empty == -1

Rows == 0..(ROWS_SEAT - 1)
Cols == 0..(COLS_SEAT - 1)
Cells == Rows \X Cols
NCells == ROWS_SEAT * COLS_SEAT

\* every value a byte on the wire can take
Byte == 0..255
\* the bytes the modelled link delivers: every valid column index, the
\* marker, and 14 / 255, which as (high, low) reach all three clamp cases
Bytes == Cols \cup {14, MarkerM, 255}
\* a smaller alphabet: a valid index, which as a sample byte decodes to the
\* upper clamp, and the marker, which is also an index out of range
LockBytes == {0, MarkerM}

\* marker + pad + index + samples + delimiter
FrameLen == 3 + 2 * ROWS_SEAT + 1

VARIABLES
    pc,           \* acquisition thread: position in seat_thread
    colsDone,     \* ReceiveMapSeat: iterations of the for loop completed
    marker,       \* ReceiveMapSeat: last byte read while looking for 'M'
    attempts,     \* ReceiveMapSeat: rescans done
    row_index,    \* ReceiveMapSeat: index byte of the header
    x,            \* ReceiveRowSeat: sample being read
    high,         \* ReceiveRowSeat: first byte of the sample
    low,          \* ReceiveRowSeat: second byte of the sample
    val,          \* ReceiveRowSeat: decoded sample
    col,          \* ReceiveRowSeat: column being decoded
    w,            \* cell position of an in-place array pass
    exc,          \* exception in flight / being handled
    site,         \* function the exception was raised in
    Values_seat,  \* the shared matrix
    seat_lock,    \* holder of seat_lock
    gpc,          \* consumer: position in update_seat
    upscaled,     \* consumer: cells read so far, row-major
    reads,        \* history: the marker scan in progress: read calls made, and
                  \* whether one of them timed out
    dev,          \* history: conformance of the bytes read to the wire protocol
    colBefore,    \* history: matrix column as ReceiveRowSeat found it
    ver,          \* history: commit that wrote each cell
    cid,          \* history: tag of the commit in progress
    snapVer,      \* history: tags of the cells read by the snapshot
    prevSnap,     \* history: previous snapshot, while no commit intervened
    committed,    \* history: some column was committed
    hist,         \* what the specification observes: "link", "cycle" and
                  \* "reads" record dev, cyc and nreads, "lock" and "none"
                  \* record none of them
    cyc,          \* history: the matrix at the start of the map decode, and the
                  \* columns the decode has committed
    nreads,       \* history: read calls made by the map decode in progress
    delim         \* history: what the delimiter read of the column returned

mapLocals == <<colsDone, marker, attempts, row_index>>
rowLocals == <<x, high, col>>
sampleVars == <<low, val>>
errVars == <<exc, site>>
acqVars == <<pc, mapLocals, rowLocals, sampleVars, w, errVars>>
sharedVars == <<Values_seat, seat_lock>>
guiVars == <<gpc, upscaled, snapVer>>
ioVars == <<reads, dev>>
commitVars == <<ver, cid, prevSnap, committed>>
histVars == <<hist, cyc, nreads, delim>>
vars == <<acqVars, sharedVars, guiVars, ioVars, colBefore, commitVars, histVars>>

\* ---------------------------------------------------------------- decoding
\* no upper clamp
ClampHigh_off(v) == v

ClampHigh(v) == IF v > 300 THEN 300 ELSE v

ClampLow(v) == IF v < 0 THEN 0 ELSE v

\* the two bytes taken in the other order
Raw_swapped(h, l) == (h * 256) + l

Raw(h, l) == (l * 256) + h

DecodeSample(h, l) == ClampHigh(ClampLow(4096 - Raw(h, l)))

\* np.clip with the bound on the other side
ClipValue_upper(v) == IF v > 0 THEN 0 ELSE v

ClipValue(v) == IF v < 0 THEN 0 ELSE v

IndexValid(i) == 0 <= i /\ i < COLS_SEAT

\* a rescan with no bound
ScanContinue_unbounded(m, a) == m # MarkerM

\* a rescan bound that is off by one
ScanContinue_inclusive(m, a) == m # MarkerM /\ a <= MaxAttempts

ScanContinue(m, a) == m # MarkerM /\ a < MaxAttempts

Column(M, j) == [r \in 1..ROWS_SEAT |-> M[<<r - 1, j>>]]

ZeroMatrix == [c \in Cells |-> 0]

\* ---------------------------------------------------------------- the link
\* The device answers a request with COLS_SEAT frames and is then silent.
\* dev follows the bytes the decoder reads: wf holds while they are exactly
\* what such a device sends, fpos is the position in the current frame,
\* nframes the frames fully read, nbad the headers with an index out of range
\* (a second such header ends conformance), skip holds while the current
\* frame is the one with that header.  While every header was valid, idx is
\* the index of the current frame, h the first byte of its sample in flight,
\* cur its samples so far and sent[j] the samples of the frame with index j.
NoneSent == [j \in Cols |-> <<>>]

DevStart == [wf |-> TRUE, fpos |-> 0, nframes |-> 0, nbad |-> 0, skip |-> FALSE,
             idx |-> 0, h |-> Empty, cur |-> <<>>, sent |-> NoneSent]

DevOff == [wf |-> FALSE, fpos |-> 0, nframes |-> 0, nbad |-> 0, skip |-> FALSE,
           idx |-> 0, h |-> Empty, cur |-> <<>>, sent |-> NoneSent]

\* a sample byte of the current frame
ObserveSample(d, b) ==
    IF d.nbad > 0 THEN [d EXCEPT !.fpos = d.fpos + 1]
    ELSE IF d.h = Empty THEN [d EXCEPT !.fpos = d.fpos + 1, !.h = b]
    ELSE [d EXCEPT !.fpos = d.fpos + 1, !.h = Empty,
                   !.cur = Append(d.cur, DecodeSample(d.h, b))]

\* the delimiter of the current frame
ObserveDelimiter(d) ==
    IF d.nbad > 0
    THEN [d EXCEPT !.fpos = 0, !.nframes = d.nframes + 1, !.skip = FALSE]
    ELSE [d EXCEPT !.fpos = 0, !.nframes = d.nframes + 1, !.idx = 0,
                   !.cur = <<>>, !.sent = [d.sent EXCEPT ![d.idx] = d.cur]]

Observe(d, b) ==
    IF ~d.wf THEN d
    ELSE IF b = Empty THEN (IF d.nframes = COLS_SEAT THEN d ELSE DevOff)
    ELSE IF d.nframes = COLS_SEAT THEN DevOff
    ELSE IF d.fpos = 0 /\ b # MarkerM THEN DevOff
    ELSE IF d.fpos = FrameLen - 1 THEN ObserveDelimiter(d)
    ELSE IF d.fpos = 2 /\ ~IndexValid(b)
         THEN (IF d.nbad = 0
               THEN [d EXCEPT !.fpos = 3, !.nbad = 1, !.skip = TRUE,
                              !.sent = NoneSent]
               ELSE DevOff)
    ELSE IF d.fpos = 2 THEN [d EXCEPT !.fpos = 3, !.idx = b]
    ELSE IF d.fpos > 2 THEN ObserveSample(d, b)
    ELSE [d EXCEPT !.fpos = d.fpos + 1]

NoScan == [n |-> 0, silent |-> FALSE]

\* cyc while no map decode is recorded
NoCycle == [start |-> ZeroMatrix, done |-> [j \in Cols |-> <<>>]]

\* cyc when ReceiveMapSeat is entered with the matrix M
CycleStart(M) == [start |-> M, done |-> [j \in Cols |-> <<>>]]

\* cyc after column j was committed with the values c; the start values of a
\* committed column are not compared again and are not kept
CycleCommit(cy, j, c) ==
    [start |-> [e \in Cells |-> IF e[2] = j THEN 0 ELSE cy.start[e]],
     done |-> [cy.done EXCEPT ![j] = c]]

\* ---------------------------------------------------------------- state
\* the state after line 20, before either thread has run; hv names the
\* history that is recorded
Boot(hv) ==
    /\ pc = "request"
    /\ colsDone = 0
    /\ marker = Empty
    /\ attempts = 0
    /\ row_index = 0
    /\ x = 0
    /\ high = 0
    /\ low = 0
    /\ val = Empty
    /\ col = <<>>
    /\ w = 0
    /\ exc = "none"
    /\ site = "none"
    /\ Values_seat = ZeroMatrix
    /\ seat_lock = "none"
    /\ gpc = "wait"
    /\ upscaled = <<>>
    /\ snapVer = <<>>
    /\ reads = NoScan
    /\ dev = DevOff
    /\ colBefore = <<>>
    /\ ver = ZeroMatrix
    /\ cid = 0
    /\ prevSnap = <<>>
    /\ committed = FALSE
    /\ hist = hv
    /\ cyc = NoCycle
    /\ nreads = 0
    /\ delim = "none"

Init == Boot("link")

\* ---------------------------------------------------------------- serial I/O
\* one more read call of the map decode
Counted(n) == IF hist = "reads" THEN n + 1 ELSE n

\* the bytes the link delivers: all of Bytes, or for the specification of the
\* lock alone one valid index and the marker
Delivered == IF hist = "lock" THEN LockBytes ELSE Bytes

\* what one ser.read(1) can return: a byte, or nothing on timeout
ReadResults == Delivered \cup {Empty}

\* ser.read(1) returned b
Got(b) ==
    /\ dev' = Observe(dev, b)
    /\ nreads' = Counted(nreads)

\* an exception of kind e leaves function fn; the frames stay with the
\* traceback until an except clause takes it
Raise(e, fn) ==
    /\ pc' = "raise"
    /\ exc' = e
    /\ site' = fn

\* read_exact(ser_seat, 1) found nothing within the timeout
ReadTimeout(fn) ==
    /\ Got(Empty)
    /\ Raise("TimeoutError", fn)

\* the serial port itself failed (serial.SerialException)
PortError(fn) ==
    /\ dev' = DevOff
    /\ nreads' = Counted(nreads)
    /\ Raise("SerialException", fn)

\* ---------------------------------------------------------------- ReceiveMapSeat
RequestPressureMapSeat ==
    /\ pc = "request"
    /\ \/ /\ pc' = "map_iter"
          /\ dev' = IF hist = "link" THEN DevStart ELSE DevOff
          /\ UNCHANGED errVars
       \/ /\ Raise("SerialException", "request")
          /\ dev' = DevOff
    /\ UNCHANGED reads
    /\ colsDone' = 0
    /\ UNCHANGED <<marker, attempts, row_index, rowLocals, sampleVars, w>>
    /\ UNCHANGED <<sharedVars, guiVars, colBefore, commitVars>>
    /\ nreads' = 0
    /\ cyc' = IF hist = "cycle" THEN CycleStart(Values_seat) ELSE cyc
    /\ UNCHANGED <<hist, delim>>

\* the for loop's head: the next iteration, or the return to seat_thread.
\* row_index is not read again before line 74 sets it, and is not kept.
MapIter ==
    /\ pc = "map_iter"
    /\ IF colsDone < COLS_SEAT
       THEN /\ pc' = "map_marker"
            /\ UNCHANGED <<colsDone, marker, cyc, nreads>>
       ELSE /\ pc' = "clip_lock"
            /\ colsDone' = 0
            /\ marker' = Empty
            /\ cyc' = NoCycle
            /\ nreads' = 0
    /\ row_index' = 0
    /\ UNCHANGED <<attempts, rowLocals, sampleVars, w, errVars>>
    /\ UNCHANGED <<sharedVars, guiVars, ioVars, colBefore, commitVars>>
    /\ UNCHANGED <<hist, delim>>

MapMarker ==
    /\ pc = "map_marker"
    /\ \/ \E b \in Delivered :
            /\ Got(b)
            /\ marker' = b
            /\ pc' = IF b = MarkerM THEN "map_pad" ELSE "map_scan"
            /\ reads' = IF b = MarkerM THEN NoScan ELSE [n |-> 1, silent |-> FALSE]
            /\ attempts' = 0
            /\ UNCHANGED errVars
       \/ /\ ReadTimeout("ReceiveMapSeat")
          /\ reads' = [n |-> 1, silent |-> TRUE]
          /\ UNCHANGED <<marker, attempts>>
       \/ /\ PortError("ReceiveMapSeat")
          /\ reads' = [n |-> 1, silent |-> FALSE]
          /\ UNCHANGED <<marker, attempts>>
    /\ UNCHANGED <<colsDone, row_index, rowLocals, sampleVars, w>>
    /\ UNCHANGED <<sharedVars, guiVars, colBefore, commitVars>>
    /\ UNCHANGED <<hist, cyc, delim>>

MapScan ==
    /\ pc = "map_scan"
    /\ ScanContinue(marker, attempts)
    /\ \/ \E b \in ReadResults :
            /\ Got(b)
            /\ marker' = b
            /\ attempts' = attempts + 1
            /\ reads' = [n |-> reads.n + 1, silent |-> reads.silent \/ b = Empty]
            /\ UNCHANGED <<pc, errVars>>
       \/ /\ PortError("ReceiveMapSeat")
          /\ reads' = [reads EXCEPT !.n = @ + 1]
          /\ UNCHANGED <<marker, attempts>>
    /\ UNCHANGED <<colsDone, row_index, rowLocals, sampleVars, w>>
    /\ UNCHANGED <<sharedVars, guiVars, colBefore, commitVars>>
    /\ UNCHANGED <<hist, cyc, delim>>

\* a scan that reports a failed rescan as a timeout
MapScanExit_timeout ==
    /\ pc = "map_scan"
    /\ ~ScanContinue(marker, attempts)
    /\ IF marker # MarkerM
       THEN /\ Raise("TimeoutError", "ReceiveMapSeat")
            /\ UNCHANGED <<attempts, reads>>
       ELSE /\ pc' = "map_pad"
            /\ attempts' = 0
            /\ reads' = NoScan
            /\ UNCHANGED errVars
    /\ UNCHANGED <<colsDone, marker, row_index, rowLocals, sampleVars, w>>
    /\ UNCHANGED <<sharedVars, guiVars, dev, colBefore, commitVars>>
    /\ UNCHANGED histVars

\* attempts is not read again before line 65 sets it to 0
MapScanExit ==
    /\ pc = "map_scan"
    /\ ~ScanContinue(marker, attempts)
    /\ IF marker # MarkerM
       THEN /\ Raise("ValueError", "ReceiveMapSeat")
            /\ UNCHANGED <<attempts, reads>>
       ELSE /\ pc' = "map_pad"
            /\ attempts' = 0
            /\ reads' = NoScan
            /\ UNCHANGED errVars
    /\ UNCHANGED <<colsDone, marker, row_index, rowLocals, sampleVars, w>>
    /\ UNCHANGED <<sharedVars, guiVars, dev, colBefore, commitVars>>
    /\ UNCHANGED histVars

MapPad ==
    /\ pc = "map_pad"
    /\ \/ \E b \in Delivered :
            /\ Got(b)
            /\ pc' = "map_index"
            /\ UNCHANGED errVars
       \/ ReadTimeout("ReceiveMapSeat")
       \/ PortError("ReceiveMapSeat")
    /\ UNCHANGED <<mapLocals, rowLocals, sampleVars, w>>
    /\ UNCHANGED <<sharedVars, guiVars, reads, colBefore, commitVars>>
    /\ UNCHANGED <<hist, cyc, delim>>

\* a decoder that rejects an index out of range
MapIndex_raise ==
    /\ pc = "map_index"
    /\ \/ \E b \in Delivered :
            /\ Got(b)
            /\ IF IndexValid(b)
               THEN /\ pc' = "row_high"
                    /\ row_index' = b
                    /\ colBefore' = Column(Values_seat, b)
                    /\ UNCHANGED errVars
               ELSE /\ Raise("ValueError", "ReceiveMapSeat")
                    /\ row_index' = b
                    /\ UNCHANGED colBefore
            /\ UNCHANGED colsDone
       \/ /\ ReadTimeout("ReceiveMapSeat")
          /\ UNCHANGED <<colsDone, row_index, colBefore>>
    /\ x' = 0
    /\ col' = <<>>
    /\ UNCHANGED <<marker, attempts, high, sampleVars, w>>
    /\ UNCHANGED <<sharedVars, guiVars, reads, commitVars>>
    /\ UNCHANGED <<hist, cyc, delim>>

\* the index byte: a valid one enters ReceiveRowSeat, any other ends the
\* iteration by `continue`
MapIndex ==
    /\ pc = "map_index"
    /\ \/ \E b \in Delivered :
            /\ Got(b)
            /\ IF IndexValid(b)
               THEN /\ pc' = "row_high"
                    /\ row_index' = b
                    /\ colBefore' = Column(Values_seat, b)
                    /\ UNCHANGED colsDone
               ELSE /\ pc' = "map_iter"
                    /\ row_index' = b
                    /\ colsDone' = colsDone + 1
                    /\ UNCHANGED colBefore
            /\ UNCHANGED errVars
       \/ /\ ReadTimeout("ReceiveMapSeat")
          /\ UNCHANGED <<colsDone, row_index, colBefore>>
       \/ /\ PortError("ReceiveMapSeat")
          /\ UNCHANGED <<colsDone, row_index, colBefore>>
    /\ x' = 0
    /\ col' = <<>>
    /\ UNCHANGED <<marker, attempts, high, sampleVars, w>>
    /\ UNCHANGED <<sharedVars, guiVars, reads, commitVars>>
    /\ UNCHANGED <<hist, cyc, delim>>

\* ---------------------------------------------------------------- ReceiveRowSeat
RowHigh ==
    /\ pc = "row_high"
    /\ x < ROWS_SEAT
    /\ \/ \E b \in Delivered :
            /\ Got(b)
            /\ high' = b
            /\ pc' = "row_low"
            /\ UNCHANGED errVars
       \/ /\ ReadTimeout("ReceiveRowSeat")
          /\ UNCHANGED high
       \/ /\ PortError("ReceiveRowSeat")
          /\ UNCHANGED high
    /\ UNCHANGED <<mapLocals, x, col, sampleVars, w>>
    /\ UNCHANGED <<sharedVars, guiVars, reads, colBefore, commitVars>>
    /\ UNCHANGED <<hist, cyc, delim>>

\* a decoder that stores each sample straight into the shared matrix
RowLow_direct ==
    /\ pc = "row_low"
    /\ \/ \E b \in Delivered :
            /\ Got(b)
            /\ col' = Append(col, DecodeSample(high, b))
            /\ Values_seat' = [Values_seat EXCEPT ![<<x, row_index>>] = DecodeSample(high, b)]
            /\ x' = x + 1
            /\ high' = 0
            /\ pc' = IF x + 1 < ROWS_SEAT THEN "row_high" ELSE "row_delim"
            /\ UNCHANGED errVars
       \/ /\ ReadTimeout("ReceiveRowSeat")
          /\ UNCHANGED <<x, high, col, Values_seat>>
    /\ UNCHANGED <<mapLocals, sampleVars, w, seat_lock>>
    /\ UNCHANGED <<guiVars, reads, colBefore, commitVars>>
    /\ UNCHANGED <<hist, cyc, delim>>

\* low byte, conversion, clamp, col[x] = val, and the loop's next x; high,
\* low and val are dead once col[x] is set and are not kept in the state
RowLow ==
    /\ pc = "row_low"
    /\ \/ \E b \in Delivered :
            /\ Got(b)
            /\ col' = Append(col, DecodeSample(high, b))
            /\ x' = x + 1
            /\ high' = 0
            /\ pc' = IF x + 1 < ROWS_SEAT THEN "row_high" ELSE "row_delim"
            /\ UNCHANGED errVars
       \/ /\ ReadTimeout("ReceiveRowSeat")
          /\ UNCHANGED <<x, high, col>>
       \/ /\ PortError("ReceiveRowSeat")
          /\ UNCHANGED <<x, high, col>>
    /\ UNCHANGED <<mapLocals, sampleVars, w>>
    /\ UNCHANGED <<sharedVars, guiVars, reads, colBefore, commitVars>>
    /\ UNCHANGED <<hist, cyc, delim>>

\* a decoder whose critical section starts before the delimiter read
RowDelim_locked ==
    /\ pc = "row_delim"
    /\ seat_lock = "none"
    /\ seat_lock' = "acq"
    /\ UNCHANGED <<histVars, acqVars, Values_seat, guiVars, ioVars, colBefore, commitVars>>

\* a decoder that reads the delimiter with read_exact
RowDelim_strict ==
    /\ pc = "row_delim"
    /\ \/ \E b \in Delivered :
            /\ Got(b)
            /\ delim' = "byte"
            /\ pc' = "row_lock"
            /\ UNCHANGED errVars
       \/ /\ ReadTimeout("ReceiveRowSeat")
          /\ delim' = "timeout"
    /\ UNCHANGED <<mapLocals, rowLocals, sampleVars, w>>
    /\ UNCHANGED <<sharedVars, guiVars, reads, colBefore, commitVars>>
    /\ UNCHANGED <<hist, cyc>>

\* ser_seat.read(1): the result, a byte or nothing, is dropped
RowDelim ==
    /\ pc = "row_delim"
    /\ \/ \E b \in ReadResults :
            /\ Got(b)
            /\ delim' = IF b = Empty THEN "timeout" ELSE "byte"
            /\ pc' = "row_lock"
            /\ UNCHANGED errVars
       \/ /\ PortError("ReceiveRowSeat")
          /\ UNCHANGED delim
    /\ UNCHANGED <<mapLocals, rowLocals, sampleVars, w>>
    /\ UNCHANGED <<sharedVars, guiVars, reads, colBefore, commitVars>>
    /\ UNCHANGED <<hist, cyc>>

MaxTag(j) == CHOOSE t \in {ver[<<r, j>>] : r \in Rows} :
                 \A r \in Rows : ver[<<r, j>>] <= t

\* a commit that does not take seat_lock
RowLock_nolock ==
    /\ pc = "row_lock"
    /\ pc' = "row_write"
    /\ w' = 0
    /\ cid' = MaxTag(row_index) + 1
    /\ UNCHANGED <<mapLocals, rowLocals, sampleVars, errVars>>
    /\ UNCHANGED <<sharedVars, guiVars, ioVars, colBefore, ver, prevSnap, committed>>
    /\ UNCHANGED histVars

\* with seat_lock: (enter)
RowLock ==
    /\ pc = "row_lock"
    /\ seat_lock = "none"
    /\ seat_lock' = "acq"
    /\ pc' = "row_write"
    /\ w' = 0
    /\ cid' = MaxTag(row_index) + 1
    /\ UNCHANGED <<mapLocals, rowLocals, sampleVars, errVars>>
    /\ UNCHANGED <<Values_seat, guiVars, ioVars, colBefore, ver, prevSnap, committed>>
    /\ UNCHANGED histVars

\* a commit that takes the header index for the row
RowWrite_transposed ==
    /\ pc = "row_write"
    /\ w < ROWS_SEAT
    /\ Values_seat' = [Values_seat EXCEPT ![<<row_index, w>>] = col[w + 1]]
    /\ ver' = [ver EXCEPT ![<<row_index, w>>] = cid]
    /\ w' = w + 1
    /\ prevSnap' = <<>>
    /\ committed' = TRUE
    /\ UNCHANGED <<pc, mapLocals, rowLocals, sampleVars, errVars>>
    /\ UNCHANGED <<seat_lock, guiVars, ioVars, colBefore, cid>>
    /\ UNCHANGED histVars

\* Values_seat[:, col_idx] = col, one cell at a time
RowWrite ==
    /\ pc = "row_write"
    /\ w < ROWS_SEAT
    /\ Values_seat' = [Values_seat EXCEPT ![<<w, row_index>>] = col[w + 1]]
    /\ ver' = [ver EXCEPT ![<<w, row_index>>] = cid]
    /\ w' = w + 1
    /\ prevSnap' = <<>>
    /\ committed' = TRUE
    /\ UNCHANGED <<pc, mapLocals, rowLocals, sampleVars, errVars>>
    /\ UNCHANGED <<seat_lock, guiVars, ioVars, colBefore, cid>>
    /\ UNCHANGED histVars

\* with seat_lock: (exit), ReceiveRowSeat returns, the for loop steps.
\* The tags of a column no snapshot is reading are reset: they are compared
\* only within one snapshot.
RowRelease ==
    /\ pc = "row_write"
    /\ w = ROWS_SEAT
    /\ seat_lock' = "none"
    /\ pc' = "map_iter"
    /\ colsDone' = colsDone + 1
    /\ x' = 0
    /\ high' = 0
    /\ col' = <<>>
    /\ w' = 0
    /\ colBefore' = <<>>
    /\ cid' = 0
    /\ ver' = IF snapVer = <<>>
              THEN [c \in Cells |-> IF c[2] = row_index THEN 0 ELSE ver[c]]
              ELSE ver
    /\ UNCHANGED <<marker, attempts, row_index, sampleVars, errVars>>
    /\ UNCHANGED <<Values_seat, guiVars, ioVars, prevSnap, committed>>
    /\ delim' = "none"
    /\ cyc' = IF hist = "cycle" THEN CycleCommit(cyc, row_index, col) ELSE cyc
    /\ UNCHANGED <<hist, nreads>>

\* ---------------------------------------------------------------- seat_thread
CellAt(k) == <<k \div COLS_SEAT, k % COLS_SEAT>>

\* with seat_lock: (enter), after ReceiveMapSeat returned
ClipLock ==
    /\ pc = "clip_lock"
    /\ seat_lock = "none"
    /\ seat_lock' = "acq"
    /\ pc' = "clip_write"
    /\ w' = 0
    /\ UNCHANGED <<mapLocals, rowLocals, sampleVars, errVars>>
    /\ UNCHANGED <<Values_seat, guiVars, ioVars, colBefore, commitVars>>
    /\ UNCHANGED histVars

\* np.clip(Values_seat, 0, None, out=Values_seat), one cell at a time
ClipWrite ==
    /\ pc = "clip_write"
    /\ w < NCells
    /\ Values_seat' = [Values_seat EXCEPT ![CellAt(w)] = ClipValue(@)]
    /\ w' = w + 1
    /\ UNCHANGED <<pc, mapLocals, rowLocals, sampleVars, errVars>>
    /\ UNCHANGED <<seat_lock, guiVars, ioVars, colBefore, commitVars>>
    /\ UNCHANGED histVars

ClipRelease ==
    /\ pc = "clip_write"
    /\ w = NCells
    /\ seat_lock' = "none"
    /\ pc' = "idle"
    /\ w' = 0
    /\ UNCHANGED <<mapLocals, rowLocals, sampleVars, errVars>>
    /\ UNCHANGED <<Values_seat, guiVars, ioVars, colBefore, commitVars>>
    /\ UNCHANGED histVars

\* a worker whose only except clause is `except TimeoutError`
Dispatch_timeout_only ==
    /\ pc = "raise"
    /\ pc' = IF exc = "TimeoutError" THEN "backoff_sync" ELSE "terminated"
    /\ colsDone' = 0
    /\ marker' = Empty
    /\ attempts' = 0
    /\ row_index' = 0
    /\ x' = 0
    /\ high' = 0
    /\ col' = <<>>
    /\ colBefore' = <<>>
    /\ reads' = NoScan
    /\ UNCHANGED <<sampleVars, w, errVars>>
    /\ UNCHANGED <<sharedVars, guiVars, dev, commitVars>>
    /\ cyc' = NoCycle
    /\ nreads' = 0
    /\ UNCHANGED <<hist, delim>>

\* the except clauses of seat_thread take the exception; the frames of
\* ReceiveMapSeat and ReceiveRowSeat are gone
Dispatch ==
    /\ pc = "raise"
    /\ pc' = IF exc \in {"TimeoutError", "ValueError"}
             THEN "backoff_sync"
             ELSE "backoff_other"
    /\ colsDone' = 0
    /\ marker' = Empty
    /\ attempts' = 0
    /\ row_index' = 0
    /\ x' = 0
    /\ high' = 0
    /\ col' = <<>>
    /\ colBefore' = <<>>
    /\ reads' = NoScan
    /\ UNCHANGED <<sampleVars, w, errVars>>
    /\ UNCHANGED <<sharedVars, guiVars, dev, commitVars>>
    /\ cyc' = NoCycle
    /\ nreads' = 0
    /\ UNCHANGED <<hist, delim>>

\* time.sleep(0.02)
BackoffSync ==
    /\ pc = "backoff_sync"
    /\ pc' = "flush"
    /\ UNCHANGED <<mapLocals, rowLocals, sampleVars, w, errVars>>
    /\ UNCHANGED <<sharedVars, guiVars, ioVars, colBefore, commitVars>>
    /\ UNCHANGED histVars

\* a handler whose discard is not wrapped in try / except: an exception it
\* raises leaves seat_thread
Flush_unguarded ==
    /\ pc = "flush"
    /\ pc' \in {"idle", "terminated"}
    /\ exc' = "none"
    /\ site' = "none"
    /\ UNCHANGED <<mapLocals, rowLocals, sampleVars, w>>
    /\ UNCHANGED <<sharedVars, guiVars, ioVars, colBefore, commitVars>>
    /\ UNCHANGED histVars

\* ser_seat.reset_input_buffer(); whether it returns or raises, the handler
\* is left the same way
Flush ==
    /\ pc = "flush"
    /\ pc' = "idle"
    /\ exc' = "none"
    /\ site' = "none"
    /\ UNCHANGED <<mapLocals, rowLocals, sampleVars, w>>
    /\ UNCHANGED <<sharedVars, guiVars, ioVars, colBefore, commitVars>>
    /\ UNCHANGED histVars

\* time.sleep(0.05)
BackoffOther ==
    /\ pc = "backoff_other"
    /\ pc' = "idle"
    /\ exc' = "none"
    /\ site' = "none"
    /\ UNCHANGED <<mapLocals, rowLocals, sampleVars, w>>
    /\ UNCHANGED <<sharedVars, guiVars, ioVars, colBefore, commitVars>>
    /\ UNCHANGED histVars

\* time.sleep(0.01), then the next turn of `while True`
Idle ==
    /\ pc = "idle"
    /\ pc' = "request"
    /\ UNCHANGED <<mapLocals, rowLocals, sampleVars, w, errVars>>
    /\ UNCHANGED <<sharedVars, guiVars, ioVars, colBefore, commitVars>>
    /\ UNCHANGED histVars

\* ---------------------------------------------------------------- update_seat
\* FuncAnimation calls update_seat
Tick ==
    /\ gpc = "wait"
    /\ gpc' = "snap_lock"
    /\ UNCHANGED <<histVars, acqVars, sharedVars, upscaled, snapVer, ioVars, colBefore, commitVars>>

\* a consumer that enters without waiting for seat_lock
SnapLock_barging ==
    /\ gpc = "snap_lock"
    /\ seat_lock' = "gui"
    /\ gpc' = "snap_read"
    /\ UNCHANGED <<histVars, acqVars, Values_seat, upscaled, snapVer, ioVars, colBefore, commitVars>>

\* with seat_lock: (enter)
SnapLock ==
    /\ gpc = "snap_lock"
    /\ seat_lock = "none"
    /\ seat_lock' = "gui"
    /\ gpc' = "snap_read"
    /\ UNCHANGED <<histVars, acqVars, Values_seat, upscaled, snapVer, ioVars, colBefore, commitVars>>

\* zoom(Values_seat, ...) reads the matrix, one cell at a time
SnapRead ==
    /\ gpc = "snap_read"
    /\ Len(upscaled) < NCells
    /\ upscaled' = Append(upscaled, Values_seat[CellAt(Len(upscaled))])
    /\ snapVer' = Append(snapVer, ver[CellAt(Len(upscaled))])
    /\ UNCHANGED <<histVars, acqVars, sharedVars, gpc, ioVars, colBefore, commitVars>>

\* with seat_lock: (exit); the blur and set_data use the copy only
SnapRelease ==
    /\ gpc = "snap_read"
    /\ Len(upscaled) = NCells
    /\ seat_lock' = "none"
    /\ gpc' = "wait"
    /\ prevSnap' = upscaled
    /\ upscaled' = <<>>
    /\ snapVer' = <<>>
    /\ UNCHANGED <<histVars, acqVars, Values_seat, ioVars, colBefore, ver, cid, committed>>

\* the window is closed: plt.show() returns and the main thread ends
Close ==
    /\ gpc = "wait"
    /\ gpc' = "closed"
    /\ UNCHANGED <<histVars, acqVars, sharedVars, upscaled, snapVer, ioVars, colBefore, commitVars>>

\* ---------------------------------------------------------------- specification
Acquire ==
    \/ RequestPressureMapSeat
    \/ MapIter
    \/ MapMarker
    \/ MapScan
    \/ MapScanExit
    \/ MapPad
    \/ MapIndex
    \/ RowHigh
    \/ RowLow
    \/ RowDelim
    \/ RowLock
    \/ RowWrite
    \/ RowRelease
    \/ ClipLock
    \/ ClipWrite
    \/ ClipRelease
    \/ Dispatch
    \/ BackoffSync
    \/ Flush
    \/ BackoffOther
    \/ Idle

Consume ==
    \/ Tick
    \/ SnapLock
    \/ SnapRead
    \/ SnapRelease
    \/ Close

Next == Acquire \/ Consume

Spec == Init /\ [][Next]_vars

\* ---------------------------------------------------------------- fair scheduling
\* Both threads, no history of the link, and the link delivers LockBytes
\* only.  A thread inside `with seat_lock:`
\* keeps running until it leaves the block (the block holds no blocking
\* call), and a thread blocked in seat_lock.acquire() gets the lock if it is
\* free again and again: between two acquisitions seat_thread makes a serial
\* read or sleeps (lines 42-51, 61-74, 100) and update_seat returns to the
\* timer of FuncAnimation, so the other thread runs while the lock is free.
InitFair == Boot("lock")

InCriticalSection == RowWrite \/ RowRelease \/ ClipWrite \/ ClipRelease

InSnapshot == SnapRead \/ SnapRelease

SpecFair ==
    /\ InitFair
    /\ [][Next]_vars
    /\ WF_vars(InCriticalSection)
    /\ WF_vars(InSnapshot)
    /\ SF_vars(RowLock)
    /\ SF_vars(ClipLock)
    /\ SF_vars(SnapLock)

\* ---------------------------------------------------------------- the acquisition thread alone
\* seat_thread with the matrix at each entry of ReceiveMapSeat and the columns
\* committed since on record; no consumer runs.
InitCycle == Boot("cycle")

SpecCycle == InitCycle /\ [][Acquire]_vars

\* seat_thread with the read calls of each map decode counted; no consumer
\* runs.
InitReads == Boot("reads")

SpecReads == InitReads /\ [][Acquire]_vars

\* ---------------------------------------------------------------- the sample decoder alone
\* Lines 42-49 on every pair of bytes: high and low are the bytes read, the
\* step computes val.
InitDecode ==
    /\ pc = "sample"
    /\ high \in Byte
    /\ low \in Byte
    /\ val = Empty
    /\ colsDone = 0
    /\ marker = Empty
    /\ attempts = 0
    /\ row_index = 0
    /\ x = 0
    /\ col = <<>>
    /\ w = 0
    /\ exc = "none"
    /\ site = "none"
    /\ Values_seat = ZeroMatrix
    /\ seat_lock = "none"
    /\ gpc = "wait"
    /\ upscaled = <<>>
    /\ snapVer = <<>>
    /\ reads = NoScan
    /\ dev = DevOff
    /\ colBefore = <<>>
    /\ ver = ZeroMatrix
    /\ cid = 0
    /\ prevSnap = <<>>
    /\ committed = FALSE
    /\ hist = "none"
    /\ cyc = NoCycle
    /\ nreads = 0
    /\ delim = "none"

StoreSample ==
    /\ pc = "sample"
    /\ val' = DecodeSample(high, low)
    /\ pc' = "stored"
    /\ UNCHANGED <<mapLocals, rowLocals, low, w, errVars>>
    /\ UNCHANGED <<sharedVars, guiVars, ioVars, colBefore, commitVars>>
    /\ UNCHANGED histVars

NextDecode == StoreSample

SpecDecode == InitDecode /\ [][NextDecode]_vars

\* ---------------------------------------------------------------- properties
RECURSIVE BitOr(_, _)
BitOr(a, b) ==
    IF a = 0 THEN b
    ELSE IF b = 0 THEN a
    ELSE (IF a % 2 = 1 \/ b % 2 = 1 THEN 1 ELSE 0) + 2 * BitOr(a \div 2, b \div 2)

Clamp(v, lo, hi) == IF v < lo THEN lo ELSE IF v > hi THEN hi ELSE v

\* position in a row-major copy of the cell at row r, column j
Pos(r, j) == r * COLS_SEAT + j + 1

SnapComplete == gpc = "snap_read" /\ Len(upscaled) = NCells

\* C1: whatever a snapshot has read of one column was written by one single
\* commit of that column (or is the initial zero state), under every
\* interleaving of the acquisition thread and the consumer.
C1_ColumnAtomic ==
    \A j \in Cols : \A r1, r2 \in Rows :
        (Pos(r1, j) <= Len(snapVer) /\ Pos(r2, j) <= Len(snapVer))
            => snapVer[Pos(r1, j)] = snapVer[Pos(r2, j)]

\* a complete snapshot that holds committed data, taken while the
\* acquisition thread waits to commit the next column
C1_Witness ==
    /\ SnapComplete
    /\ pc = "row_lock"
    /\ \E p \in 1..NCells : upscaled[p] # 0

RowDecoding == {"row_high", "row_low", "row_delim", "row_lock"}

\* C2: when a read times out after k < ROWS_SEAT complete samples, the column
\* decode fails with TimeoutError and the matrix column the header addresses
\* is as it was when the decode started; until the commit no decoded sample
\* is in the shared matrix.
C2_TimeoutNoPartialCommit ==
    /\ (pc = "raise" /\ site = "ReceiveRowSeat" /\ exc = "TimeoutError")
          => /\ x < ROWS_SEAT
             /\ Len(col) = x
             /\ Column(Values_seat, row_index) = colBefore
    /\ pc \in RowDecoding => Column(Values_seat, row_index) = colBefore

\* the timeout comes after one sample that differs from the matrix
C2_Witness ==
    /\ pc = "raise"
    /\ site = "ReceiveRowSeat"
    /\ exc = "TimeoutError"
    /\ x = 1
    /\ col[1] # colBefore[1]

\* C3: for all bytes high (first on the wire) and low, the stored value is
\* clamp(4096 - ((low << 8) | high), 0, 300); (0x00, 0x00) gives 300 and
\* (0xFF, 0x0F) gives 1.
C3_SampleDecode ==
    pc = "stored" =>
        /\ val = Clamp(4096 - BitOr(low * 256, high), 0, 300)
        /\ (high = 0 /\ low = 0) => val = 300
        /\ (high = 255 /\ low = 15) => val = 1

C3_Witness == pc = "stored" /\ high = 255 /\ low = 15 /\ val = 1

DesyncRaised == pc = "raise" /\ exc = "ValueError"

\* C4 as amended: the scan fails with the desync error after exactly
\* MaxAttempts + 1 read calls (the read of line 61 and MaxAttempts rescans),
\* and no scan makes more.
C4_ScanBoundPlusOne ==
    /\ reads.n <= MaxAttempts + 1
    /\ DesyncRaised => reads.n = MaxAttempts + 1

\* C4 as claimed: over a stream of non-marker bytes the scan fails after
\* exactly MaxAttempts reads.
C4_ScanBoundExact ==
    (DesyncRaised /\ ~reads.silent) => reads.n = MaxAttempts

\* the desync error after a scan in which every read returned a byte
C4_Witness == DesyncRaised /\ ~reads.silent /\ marker \in Bytes

\* C5: a header whose index is out of range ends the iteration without an
\* exception and without a change to the matrix, and a cycle over
\* well-formed frames of which one has such a header does not fail.
C5_SkipTolerated ==
    [][ /\ (pc = "map_index" /\ ~IndexValid(row_index'))
            => /\ pc' = "map_iter"
               /\ colsDone' = colsDone + 1
               /\ exc' = "none"
               /\ Values_seat' = Values_seat
        /\ pc' = "raise" => ~(dev'.wf /\ dev'.nbad = 1)
      ]_vars

\* ReceiveMapSeat has returned from a well-formed cycle with one skipped header
C5_Witness == pc = "clip_lock" /\ dev.wf /\ dev.nbad = 1 /\ dev.nframes = COLS_SEAT

\* C6: the loop never terminates: every exception is taken by a handler, the
\* handler sleeps, and the only way on is the idle delay and a new request.
C6_LoopResilience ==
    [][ /\ pc' # "terminated"
        /\ pc = "raise" => pc' \in {"raise", "backoff_sync", "backoff_other"}
        /\ pc = "backoff_sync" => pc' \in {"backoff_sync", "flush"}
        /\ pc = "flush" => pc' \in {"flush", "idle"}
        /\ pc = "backoff_other" => pc' \in {"backoff_other", "idle"}
        /\ pc = "idle" => pc' \in {"idle", "request"}
        /\ (pc' = "request" /\ pc # "request") => pc = "idle"
      ]_vars

\* a desync error is being backed off from, after an earlier commit
C6_Witness == pc = "backoff_sync" /\ exc = "ValueError" /\ committed

\* C7 as claimed: once the stop signal is raised, the loop stops at the top
\* of its next cycle.
C7_StopTakesEffect ==
    [][ (gpc = "closed" /\ pc = "idle" /\ pc' # "idle") => pc' = "terminated" ]_vars

SerialIO == {"request", "map_marker", "map_scan", "map_pad", "map_index",
             "row_high", "row_low", "row_delim", "flush"}

\* C8: whoever holds seat_lock is in one column write, the normalization
\* pass or one full read of the matrix, never at a serial read, write or
\* discard.
C8_NoLockAcrossIO ==
    /\ seat_lock = "acq" => pc \in {"row_write", "clip_write"}
    /\ seat_lock = "gui" => gpc = "snap_read"
    /\ pc \in SerialIO => seat_lock # "acq"

\* the column write is half done while the consumer waits for the lock
C8_Witness == seat_lock = "acq" /\ pc = "row_write" /\ w = 1 /\ gpc = "snap_lock"

\* C9: every cell of the matrix is in [0, 300], and the matrix is all zero
\* until the first commit.
C9_Range ==
    /\ \A c \in Cells : 0 <= Values_seat[c] /\ Values_seat[c] <= 300
    /\ ~committed => Values_seat = ZeroMatrix

\* the matrix holds a value clamped to 300 and one strictly inside the range
C9_Witness ==
    /\ \E c \in Cells : Values_seat[c] = 300
    /\ \E c \in Cells : 0 < Values_seat[c] /\ Values_seat[c] < 300

\* C10: a snapshot equals the previous one when no column was committed
\* since, whatever else the acquisition thread did, and no step of the
\* consumer changes the matrix.
C10_SnapshotIdempotent ==
    [][ /\ (gpc' # gpc \/ upscaled' # upscaled) => Values_seat' = Values_seat
        /\ (SnapComplete' /\ prevSnap' # <<>>) => upscaled' = prevSnap'
      ]_vars

\* the second of two snapshots of committed data with no commit between them,
\* complete while the acquisition thread recovers from a failed cycle
C10_Witness ==
    /\ SnapComplete
    /\ prevSnap # <<>>
    /\ \E p \in 1..NCells : prevSnap[p] # 0
    /\ pc = "flush"

\* the step by which an exception leaves the map decode
Raised == pc' = "raise" /\ pc # "raise"

\* the read_exact calls: lines 61, 73, 74 and the sample reads 42, 43
ExactReads == {"map_marker", "map_pad", "map_index", "row_high", "row_low"}

\* the reads made inside ReceiveRowSeat
ColumnReads == {"row_high", "row_low", "row_delim"}

\* C11 (as amended): the map decode fails with the desync error exactly when
\* the first byte of an iteration was not the marker and MaxAttempts rescans
\* (timed-out rescans counted) found none; it fails with TimeoutError exactly
\* when a read_exact call times out, which is the first marker read of an
\* iteration (a link silent where a marker is expected), the pad read, the
\* index read or a sample read of the column decoder.
C11_FailureKindsByRead ==
    [][ /\ (Raised /\ exc' = "ValueError")
              => (pc = "map_scan" /\ attempts = MaxAttempts /\ marker # MarkerM)
        /\ (Raised /\ exc' = "TimeoutError") => pc \in ExactReads
        /\ (pc = "map_marker" /\ reads'.silent)
              => (pc' = "raise" /\ exc' = "TimeoutError")
        /\ (pc = "map_scan" /\ ~ScanContinue(marker, attempts)
               /\ marker # MarkerM /\ pc' # pc)
              => (pc' = "raise" /\ exc' = "ValueError") ]_vars

C11_Witness ==
    /\ pc = "raise"
    /\ exc = "TimeoutError"
    /\ site = "ReceiveMapSeat"
    /\ reads.n = 1
    /\ reads.silent

\* C11 (as stated): a link silent where a marker is expected fails the map
\* decode with the desync error, and TimeoutError leaves the map decode only
\* from a read inside the column decoder.
C11_FailureKinds ==
    [][ /\ (pc = "map_marker" /\ reads'.silent /\ Raised) => exc' = "ValueError"
        /\ (Raised /\ exc' = "TimeoutError") => pc \in ColumnReads ]_vars

\* bytes the column decode in progress has consumed after its header
RowBytes == 2 * Len(col) + (IF delim = "byte" THEN 1 ELSE 0)

\* C12 (as amended): the 2*ROWS sample bytes of a column are mandatory, a
\* sample read that times out fails the decode with TimeoutError before the
\* column is complete and nothing is committed; the delimiter read is best
\* effort, a timeout there is ignored and the column is committed; so every
\* committed column has consumed 2*ROWS or 2*ROWS + 1 bytes after its header.
C12_DelimiterOptional ==
    [][ /\ (Raised /\ site' = "ReceiveRowSeat" /\ exc' = "TimeoutError")
              => /\ pc \in {"row_high", "row_low"}
                 /\ RowBytes < 2 * ROWS_SEAT
                 /\ Column(Values_seat', row_index) = colBefore
        /\ (pc = "row_delim" /\ delim' = "timeout")
              => (pc' = "row_lock" /\ exc' = "none")
        /\ (pc = "row_lock" /\ pc' = "row_write")
              => /\ Len(col) = ROWS_SEAT
                 /\ delim \in {"byte", "timeout"}
                 /\ RowBytes \in {2 * ROWS_SEAT, 2 * ROWS_SEAT + 1} ]_vars

C12_Witness ==
    /\ pc = "row_write"
    /\ w = ROWS_SEAT
    /\ delim = "timeout"
    /\ RowBytes = 2 * ROWS_SEAT
    /\ Column(Values_seat, row_index) = col
    /\ col # colBefore

\* C12 (as stated): a delimiter that does not arrive within the read timeout
\* fails the decode with TimeoutError, and every committed column has consumed
\* exactly 2*ROWS + 1 bytes after its header.
C12_DelimiterMandatory ==
    [][ /\ (pc = "row_delim" /\ delim' = "timeout")
              => (pc' = "raise" /\ exc' = "TimeoutError")
        /\ (pc = "row_lock" /\ pc' = "row_write")
              => RowBytes = 2 * ROWS_SEAT + 1 ]_vars

\* the map decode was left by TimeoutError or by the desync error
DecodeAborted == pc = "raise" /\ exc \in {"TimeoutError", "ValueError"}

\* columns committed by the map decode in progress
CycleCommitted == {j \in Cols : cyc.done[j] # <<>>}

\* C13: when the map decode aborts with TimeoutError or the desync error,
\* fewer than COLS columns were committed by it, each of them holds the values
\* decoded for it, and every other column is what it was when the decode
\* started.
C13_PartialCycleFrame ==
    DecodeAborted =>
        /\ Cardinality(CycleCommitted) < COLS_SEAT
        /\ \A j \in Cols :
              Column(Values_seat, j) = IF j \in CycleCommitted
                                       THEN cyc.done[j]
                                       ELSE Column(cyc.start, j)

C13_Witness ==
    /\ DecodeAborted
    /\ CycleCommitted = {1}
    /\ Values_seat[<<0, 1>>] # Values_seat[<<1, 1>>]
    /\ Values_seat[<<0, 0>>] = 300
    /\ Values_seat[<<1, 0>>] = 257

\* the bytes read since the request were COLS well-formed frames whose
\* indices are a permutation of the columns
PermutationRead ==
    /\ dev.wf
    /\ dev.nbad = 0
    /\ dev.nframes = COLS_SEAT
    /\ \A j \in Cols : dev.sent[j] # <<>>

\* positions of seat_thread between the last read of a map decode that
\* succeeds and the next request
AfterDecode ==
    {"row_lock", "row_write", "map_iter", "clip_lock", "clip_write", "idle", "request"}

\* C14: over COLS well-formed frames whose indices are a permutation of the
\* columns the map decode does not fail, it returns once the frames are
\* read, and on its return cell [r, j] holds the clamped decoded value of
\* sample r of the frame with index j: the index selects the column.
C14_FullCycle ==
    /\ (dev.wf /\ dev.nbad = 0) => pc # "raise"
    /\ PermutationRead => pc \in AfterDecode
    /\ (pc = "clip_lock" /\ PermutationRead)
          => \A j \in Cols : \A r \in Rows :
                Values_seat[<<r, j>>] = dev.sent[j][r + 1]

C14_Witness ==
    /\ pc = "clip_lock"
    /\ PermutationRead
    /\ dev.sent[0] # dev.sent[1]
    /\ Values_seat[<<0, 1>>] # Values_seat[<<1, 0>>]
    /\ Values_seat[<<0, 1>>] = 257

\* C15 (as stated): a header whose index is out of range does not use up one
\* of the COLS iterations of the map decode, so the decode still has COLS
\* columns to commit after it.
C15_SkipNotCounted ==
    [][ (pc = "map_index" /\ pc' = "map_iter") => colsDone' = colsDone ]_vars

\* the failures the first except clause takes
SyncFailures == {"TimeoutError", "ValueError"}

\* C16: a cycle that failed with TimeoutError or the desync error is followed
\* by the short backoff and then by the discard of the input buffer, which
\* whatever its outcome leads on to the end of the loop body; a cycle that
\* failed any other way is followed by the long backoff; in both cases the
\* next request is written only after the handler is done.
C16_RecoveryOrder ==
    [][ /\ (pc = "raise" /\ pc' # pc)
              => pc' = IF exc \in SyncFailures THEN "backoff_sync" ELSE "backoff_other"
        /\ (pc = "backoff_sync" /\ pc' # pc) => (pc' = "flush" /\ exc' = exc)
        /\ (pc = "flush" /\ pc' # pc) => (exc \in SyncFailures /\ pc' = "idle")
        /\ (pc = "backoff_other" /\ pc' # pc)
              => (exc \notin SyncFailures \cup {"none"} /\ pc' = "idle")
        /\ (pc' = "request" /\ pc # "request") => (pc = "idle" /\ exc = "none") ]_vars

C16_Witness ==
    /\ pc = "flush"
    /\ exc = "TimeoutError"
    /\ site = "ReceiveRowSeat"
    /\ committed

\* read calls one iteration of the map decode can make: the first marker
\* read, the rescans, pad and index, the samples and the delimiter
IterationReads == 1 + MaxAttempts + 2 + 2 * ROWS_SEAT + 1

\* positions of seat_thread inside ReceiveMapSeat
Decoding ==
    {"map_iter", "map_marker", "map_scan", "map_pad", "map_index",
     "row_high", "row_low", "row_delim", "row_lock", "row_write"}

\* C17: a map decode makes at most COLS * (1 + MaxAttempts + 2 + 2*ROWS + 1)
\* read calls, at most that many per iteration begun, whatever the reads
\* return; it runs at most COLS iterations, makes a read only while it has
\* one to run, and with no other thread running is never left without a step
\* to take.
C17_BoundedReads ==
    /\ nreads <= COLS_SEAT * IterationReads
    /\ pc \in Decoding =>
          /\ colsDone <= COLS_SEAT
          /\ nreads <= (colsDone + 1) * IterationReads
          /\ (pc # "map_iter" => colsDone < COLS_SEAT)
          /\ ENABLED Acquire

C17_Witness ==
    /\ pc = "map_iter"
    /\ colsDone = COLS_SEAT
    /\ nreads = COLS_SEAT * IterationReads

\* the last byte read lies in the payload of the frame whose header was
\* skipped
InSkippedPayload == dev.wf /\ dev.skip /\ dev.fpos > 3

\* positions of the map decode that follow a byte taken as a marker, a pad,
\* an index or a sample
HeaderOrSampleTaken ==
    {"map_pad", "map_index", "row_high", "row_low", "row_delim", "row_lock", "row_write"}

\* C18 (as stated): no byte of the payload of a skipped frame is taken as a
\* marker, a pad, an index or a sample, whatever its value.
C18_SkippedPayloadInert == InSkippedPayload => pc \notin HeaderOrSampleTaken

\* positions inside a `with seat_lock:` block of seat_thread
AcqInside == {"row_write", "clip_write"}

\* positions of seat_thread blocked in seat_lock.acquire()
AcqWaiting == {"row_lock", "clip_lock"}

\* C19: the two threads are never both inside a `with seat_lock:` block and
\* the thread inside is the holder; a lock that is held is released; under
\* fair scheduling a thread waiting for seat_lock obtains it.
C19_LockLiveness ==
    /\ [](/\ ~(pc \in AcqInside /\ gpc = "snap_read")
          /\ (pc \in AcqInside => seat_lock = "acq")
          /\ (gpc = "snap_read" => seat_lock = "gui"))
    /\ (seat_lock = "acq" ~> seat_lock # "acq")
    /\ (seat_lock = "gui" ~> seat_lock # "gui")
    /\ (pc \in AcqWaiting ~> pc \in AcqInside)
    /\ (gpc = "snap_lock" ~> gpc = "snap_read")

C19_Witness ==
    /\ seat_lock = "gui"
    /\ gpc = "snap_read"
    /\ Len(upscaled) = 1
    /\ pc = "clip_lock"
====
